---- MODULE Spec2Model ----
(***************************************************************************)
(* Model of package httpapi (src/unnamed/part_000, lines 1-114): the       *)
(* validator set up by init, the username rule, the Response envelope,     *)
(* Write and Read.                                                         *)
(*                                                                         *)
(* Text is a sequence of one-character strings, so that "" is << >> and    *)
(* len(str) is Len(str).  A field value is a record [kind, s, n]: kind is  *)
(* "string" for text (s its characters), "int" for a number (n) and "nil"  *)
(* for an absent reference.                                                *)
(*                                                                         *)
(* The outbound channel (http.ResponseWriter) is a record: its header map, *)
(* the status line once sent, the body chunks written, whether its Write   *)
(* fails (the peer is gone), and the log of the calls made on it.          *)
(*                                                                         *)
(* Three libraries are called by the code and are modelled by what they    *)
(* do: encoding/json (Decode, Encode with omitempty), net/http             *)
(* (ResponseWriter, http.Error) and go-playground/validator v10            *)
(* (Struct: fields in declaration order, the rules of a field in tag       *)
(* order, one FieldError for the first failing rule of a field; an         *)
(* InvalidValidationError for a value that is not a struct; a panic for a  *)
(* rule name that was never registered; the declared field name when the   *)
(* tag-name function returns "").                                          *)
(***************************************************************************)
EXTENDS Integers, Sequences, FiniteSets, TLC

VARIABLES call, req, value, w, resp, ret, validated

vars == <<call, req, value, w, resp, ret, validated>>

\* ------------------------------------------------------------------ bounds

\* Most fields a payload struct declares.
MaxFields == 2
\* Longest text put before the run of "a" of a username candidate.
MaxPrefix == 2
\* Longest text put after the run of "a" of a username candidate.
MaxSuffix == 2
\* Longest run of "a" in a username candidate (33 is the first length refused).
MaxRun == 33
\* Most Errors of a Response handed to Write by a handler.
MaxErrors == 2

\* ------------------------------------------------------- program constants

\* len(str) > 32 is refused.
UsernameMaxLen == 32
\* len(str) < 1 is refused.
UsernameMinLen == 1
StatusBadRequest == 400
StatusInternalServerError == 500

\* ------------------------------------------------------------ usernameRegex

Lower == {"a","b","c","d","e","f","g","h","i","j","k","l","m",
          "n","o","p","q","r","s","t","u","v","w","x","y","z"}
Upper == {"A","B","C","D","E","F","G","H","I","J","K","L","M",
          "N","O","P","Q","R","S","T","U","V","W","X","Y","Z"}
Digit == {"0","1","2","3","4","5","6","7","8","9"}
\* The character class [a-zA-Z0-9].
Alnum == Lower \cup Upper \cup Digit

\* The automaton of ^[a-zA-Z0-9]+(?:-[a-zA-Z0-9]+)*$ run from position i.
\* q = 0: a segment must start here; q = 1: inside a segment.
RECURSIVE RegexRun(_, _, _)
RegexRun(str, i, q) ==
  IF i > Len(str) THEN q = 1
  ELSE IF str[i] \in Alnum THEN RegexRun(str, i + 1, 1)
  ELSE IF str[i] = "-" /\ q = 1 THEN RegexRun(str, i + 1, 0)
  ELSE FALSE

usernameRegexMatch(str) == RegexRun(str, 1, 0)

\* ------------------------------------------------------------------- rules

\* The username rule with the upper length test off by one.
UsernameOffByOne(f) ==
  IF f.kind # "string" THEN FALSE
  ELSE IF Len(f.s) > UsernameMaxLen + 1 THEN FALSE
  ELSE IF Len(f.s) < UsernameMinLen THEN FALSE
  ELSE usernameRegexMatch(f.s)

\* validate.RegisterValidation("username", ...)
username(f) ==
  IF f.kind # "string" THEN FALSE
  ELSE IF Len(f.s) > UsernameMaxLen THEN FALSE
  ELSE IF Len(f.s) < UsernameMinLen THEN FALSE
  ELSE usernameRegexMatch(f.s)

\* The validator's built-in "required": the value is not the zero value.
required(f) ==
  CASE f.kind = "string" -> f.s # << >>
    [] f.kind = "int" -> f.n # 0
    [] OTHER -> FALSE

\* The rule names the validator knows after init: the built-ins of
\* validator.New() (of which the payloads here use "required") and "username".
Registered == {"required", "username"}

RuleFn(name, f) ==
  CASE name = "required" -> required(f)
    [] name = "username" -> username(f)

\* ------------------------------------------------------------- field names

\* validate.RegisterTagNameFunc: the json tag is split at its first comma
\* (fld.json is the list of its parts); the name "-" becomes "".
TagNameFunc(fld) ==
  LET name == Head(fld.json)
  IN IF name = "-" THEN "" ELSE name

\* validator v10 (extractStructCache): the name a FieldError carries is the
\* tag name when it is not empty, and the declared field name otherwise.
AltName(fld) ==
  LET name == TagNameFunc(fld)
  IN IF Len(name) > 0 THEN name ELSE fld.name

\* ---------------------------------------------------- http.ResponseWriter

\* A fresh channel: nothing set, nothing sent.  broken: its Write fails.
NewWriter(broken) ==
  [header |-> [ct |-> "", xcto |-> ""], status |-> 0,
   sent |-> [ct |-> "", xcto |-> ""], body |-> << >>,
   broken |-> broken, calls |-> << >>]

Logged(ch, op, arg) == [ch EXCEPT !.calls = Append(@, [op |-> op, arg |-> arg])]

\* w.Header().Set(key, val)
HeaderSet(ch, key, val) ==
  LET h == IF key = "Content-Type" THEN [ch.header EXCEPT !.ct = val]
           ELSE [ch.header EXCEPT !.xcto = val]
  IN [Logged(ch, "Header.Set", <<key, val>>) EXCEPT !.header = h]

\* w.WriteHeader(code): the first call sends the status line with the headers
\* as they are then; net/http ignores a later call ("superfluous WriteHeader").
WriteHeader(ch, code) ==
  LET c == Logged(ch, "WriteHeader", code)
  IN IF ch.status # 0 THEN c
     ELSE [c EXCEPT !.status = code, !.sent = ch.header]

\* w.Write(data): sends status 200 first when no status was sent; the bytes
\* reach the body unless the channel is broken (Write then returns an error).
ChanWrite(ch, data) ==
  LET c0 == IF ch.status # 0 THEN ch
            ELSE [ch EXCEPT !.status = 200, !.sent = ch.header]
      c1 == Logged(c0, "Write", data)
  IN IF ch.broken THEN c1 ELSE [c1 EXCEPT !.body = Append(@, data)]

\* http.Error(w, msg, code)
httpError(ch, msg, code) ==
  LET c1 == HeaderSet(ch, "Content-Type", "text/plain; charset=utf-8")
      c2 == HeaderSet(c1, "X-Content-Type-Options", "nosniff")
      c3 == WriteHeader(c2, code)
  IN ChanWrite(c3, [text |-> msg])

\* ---------------------------------------------------------------- Response

\* enc.Encode(response) for type Response: the member "message" always, the
\* member "errors" unless the slice is empty (omitempty).  Every member of a
\* Response is text, which encoding/json always encodes, so the encoder fails
\* only when a failure is injected (fault).
Encode(response, fault) ==
  IF fault THEN [err |-> "json: unsupported value", bytes |-> [json |-> << >>]]
  ELSE [err |-> "",
        bytes |-> [json |->
          << [k |-> "message", v |-> response.Message] >> \o
          (IF Len(response.Errors) = 0 THEN << >>
           ELSE << [k |-> "errors", v |-> response.Errors] >>)]]

\* No failure is injected into the encoder.
NoFault == FALSE

\* Write that still sends the envelope after the encoder failed.
WriteNoReturn(ch, status, response, fault) ==
  LET enc == Encode(response, fault)
      c0 == IF enc.err # "" THEN httpError(ch, enc.err, StatusInternalServerError)
            ELSE ch
      c1 == HeaderSet(c0, "Content-Type", "application/json; charset=utf-8")
      c2 == WriteHeader(c1, status)
  IN ChanWrite(c2, enc.bytes)

\* Write(w, status, response): the channel after the call.  Write has no
\* result.
Write(ch, status, response, fault) ==
  LET enc == Encode(response, fault)
  IN IF enc.err # "" THEN httpError(ch, enc.err, StatusInternalServerError)
     ELSE LET c1 == HeaderSet(ch, "Content-Type", "application/json; charset=utf-8")
              c2 == WriteHeader(c1, status)
              c3 == ChanWrite(c2, enc.bytes)
          IN IF ch.broken
             THEN httpError(c3, "write: broken pipe", StatusInternalServerError)
             ELSE c3

\* --------------------------------------------------------- json decoding

\* A request body: not JSON at all (syntax = FALSE), or a JSON object that
\* gives every json name of the destination the member `member`:
\* "absent" (the object is {}), a JSON number ([t |-> "number"]) or a JSON
\* string ([t |-> "string", s |-> its characters]).
IsMismatch(fld, body) ==
  /\ Head(fld.json) # "-"
  /\ body.member.t = "number"
  /\ fld.val.kind = "string"

\* The field after decoding: a field whose json name is "-" is never touched,
\* an absent member leaves the field as it was, a member of the wrong JSON
\* type leaves it as it was (and is an error), a string is stored.
DecodeField(fld, body) ==
  IF Head(fld.json) = "-" \/ body.member.t # "string" THEN fld
  ELSE [fld EXCEPT !.val = [kind |-> "string", s |-> body.member.s, n |-> 0]]

\* json.NewDecoder(r.Body).Decode(value): [err, value].  err is "" on success.
Decode(body, dest) ==
  IF ~body.syntax
  THEN [err |-> "invalid character 'x' looking for beginning of value",
        value |-> dest]
  ELSE LET v == [dest EXCEPT !.fields =
                   [i \in DOMAIN dest.fields |-> DecodeField(dest.fields[i], body)]]
       IN IF dest.kind = "struct" /\
             \E i \in DOMAIN dest.fields : IsMismatch(dest.fields[i], body)
          THEN [err |-> "json: cannot unmarshal number into Go struct field",
                value |-> v]
          ELSE [err |-> "", value |-> v]

\* ------------------------------------------------------- validate.Struct

\* Index of the first rule of fld, from k on, that its value fails; 0 if none.
RECURSIVE FirstFailing(_, _)
FirstFailing(fld, k) ==
  IF k > Len(fld.rules) THEN 0
  ELSE IF ~RuleFn(fld.rules[k], fld.val) THEN k
  ELSE FirstFailing(fld, k + 1)

\* Every failing rule of the field is reported, not only the first.
RECURSIVE AllFailing(_, _)
AllFailing(fld, k) ==
  IF k > Len(fld.rules) THEN << >>
  ELSE (IF ~RuleFn(fld.rules[k], fld.val)
        THEN << [Field |-> AltName(fld), Tag |-> fld.rules[k]] >>
        ELSE << >>) \o AllFailing(fld, k + 1)

FieldErrorsAll(fld) == AllFailing(fld, 1)

\* The FieldErrors of one field: none, or one for its first failing rule.
FieldErrors(fld) ==
  LET k == FirstFailing(fld, 1)
  IN IF k = 0 THEN << >>
     ELSE << [Field |-> AltName(fld), Tag |-> fld.rules[k]] >>

\* The FieldErrors of fields i.. in declaration order.
RECURSIVE StructErrors(_, _)
StructErrors(fields, i) ==
  IF i > Len(fields) THEN << >>
  ELSE FieldErrors(fields[i]) \o StructErrors(fields, i + 1)

\* The same walk from the last field to the first.
RECURSIVE StructErrorsBackwards(_, _)
StructErrorsBackwards(fields, i) ==
  IF i > Len(fields) THEN << >>
  ELSE StructErrorsBackwards(fields, i + 1) \o FieldErrors(fields[i])

ValidationErrorsReversed(fields) == StructErrorsBackwards(fields, 1)

\* validator.ValidationErrors of a struct.
ValidationErrors(fields) == StructErrors(fields, 1)

\* validate.Struct(value): "InvalidValidationError" for a value that is no
\* struct; a panic while the struct's tags are parsed when a rule name is not
\* registered; nil when no field fails; else the ValidationErrors.
ValidateStruct(v) ==
  IF v.kind # "struct" THEN [kind |-> "InvalidValidationError", errs |-> << >>]
  ELSE IF \E i \in DOMAIN v.fields : \E k \in DOMAIN v.fields[i].rules :
            v.fields[i].rules[k] \notin Registered
  THEN [kind |-> "panic", errs |-> << >>]
  ELSE LET errs == ValidationErrors(v.fields)
       IN IF errs = << >> THEN [kind |-> "nil", errs |-> << >>]
          ELSE [kind |-> "ValidationErrors", errs |-> errs]

\* -------------------------------------------------------------------- Read

\* The outcome of a call of Read.
Outcome(rw, r, v, val, rs) ==
  [rw |-> rw, ret |-> r, value |-> v, validated |-> val, resp |-> rs]

\* Read that drops the decoder's error and validates what was decoded.
ReadIgnoringDecode(rw, body, dest) ==
  LET dec == Decode(body, dest)
  IN IF FALSE
     THEN LET rs == [Message |-> <<"read body: ", dec.err>>, Errors |-> << >>]
          IN Outcome(Write(rw, StatusBadRequest, rs, NoFault), "false",
                     dec.value, FALSE, <<rs>>)
     ELSE LET err == ValidateStruct(dec.value)
          IN IF err.kind = "panic"
             THEN Outcome(rw, "panic", dec.value, TRUE, << >>)
             ELSE IF err.kind = "ValidationErrors"
             THEN LET apiErrors == [k \in DOMAIN err.errs |->
                                     [Field |-> err.errs[k].Field,
                                      Code |-> err.errs[k].Tag]]
                      rs == [Message |-> <<"Validation failed">>,
                             Errors |-> apiErrors]
                  IN Outcome(Write(rw, StatusBadRequest, rs, NoFault), "false",
                             dec.value, TRUE, <<rs>>)
             ELSE IF err.kind # "nil"
             THEN LET rs == [Message |-> <<"validation: ", err.kind>>,
                             Errors |-> << >>]
                  IN Outcome(Write(rw, StatusInternalServerError, rs, NoFault),
                             "false", dec.value, TRUE, <<rs>>)
             ELSE Outcome(rw, "true", dec.value, TRUE, << >>)

\* Read that answers 200 on success instead of leaving the channel alone.
ReadAnswersSuccess(rw, body, dest) ==
  LET dec == Decode(body, dest)
  IN IF dec.err # ""
     THEN LET rs == [Message |-> <<"read body: ", dec.err>>, Errors |-> << >>]
          IN Outcome(Write(rw, StatusBadRequest, rs, NoFault), "false",
                     dec.value, FALSE, <<rs>>)
     ELSE LET err == ValidateStruct(dec.value)
          IN IF err.kind = "panic"
             THEN Outcome(rw, "panic", dec.value, TRUE, << >>)
             ELSE IF err.kind = "ValidationErrors"
             THEN LET apiErrors == [k \in DOMAIN err.errs |->
                                     [Field |-> err.errs[k].Field,
                                      Code |-> err.errs[k].Tag]]
                      rs == [Message |-> <<"Validation failed">>,
                             Errors |-> apiErrors]
                  IN Outcome(Write(rw, StatusBadRequest, rs, NoFault), "false",
                             dec.value, TRUE, <<rs>>)
             ELSE IF err.kind # "nil"
             THEN LET rs == [Message |-> <<"validation: ", err.kind>>,
                             Errors |-> << >>]
                  IN Outcome(Write(rw, StatusInternalServerError, rs, NoFault),
                             "false", dec.value, TRUE, <<rs>>)
             ELSE LET rs == [Message |-> <<"OK">>, Errors |-> << >>]
                  IN Outcome(Write(rw, 200, rs, NoFault), "true",
                             dec.value, TRUE, <<rs>>)

\* Read(rw, r, value): the channel after the call, the result ("true",
\* "false", or "panic" when validate.Struct panicked and Read never returned),
\* the destination after decoding, whether validate.Struct was run, and the
\* Response handed to Write (none or one).
Read(rw, body, dest) ==
  LET dec == Decode(body, dest)
  IN IF dec.err # ""
     THEN LET rs == [Message |-> <<"read body: ", dec.err>>, Errors |-> << >>]
          IN Outcome(Write(rw, StatusBadRequest, rs, NoFault), "false",
                     dec.value, FALSE, <<rs>>)
     ELSE LET err == ValidateStruct(dec.value)
          IN IF err.kind = "panic"
             THEN Outcome(rw, "panic", dec.value, TRUE, << >>)
             ELSE IF err.kind = "ValidationErrors"
             THEN LET apiErrors == [k \in DOMAIN err.errs |->
                                     [Field |-> err.errs[k].Field,
                                      Code |-> err.errs[k].Tag]]
                      rs == [Message |-> <<"Validation failed">>,
                             Errors |-> apiErrors]
                  IN Outcome(Write(rw, StatusBadRequest, rs, NoFault), "false",
                             dec.value, TRUE, <<rs>>)
             ELSE IF err.kind # "nil"
             THEN LET rs == [Message |-> <<"validation: ", err.kind>>,
                             Errors |-> << >>]
                  IN Outcome(Write(rw, StatusInternalServerError, rs, NoFault),
                             "false", dec.value, TRUE, <<rs>>)
             ELSE Outcome(rw, "true", dec.value, TRUE, << >>)

\* ------------------------------------------------------------------ inputs

Text(s) == [kind |-> "string", s |-> s, n |-> 0]

\* The values a string field holds before decoding: "", "a" (passes both
\* rules) and "-" (passes required, fails username).
FieldVals == {Text(<< >>), Text(<<"a">>), Text(<<"-">>)}

\* The validate tags of a field, as the list of their rule names.  "uuid4x"
\* is a name nothing registers.
RuleLists ==
  { << >>, <<"required">>, <<"username">>, <<"required", "username">>,
    <<"username", "required">>, <<"uuid4x">>, <<"required", "uuid4x">> }

\* The i-th declared field of a payload struct: its Go name, the parts of
\* its json tag, its rules and its value.
Field(i, excluded, rules, val) ==
  [name |-> "F" \o ToString(i),
   json |-> IF excluded THEN <<"-">> ELSE <<"f" \o ToString(i), "omitempty">>,
   rules |-> rules, val |-> val]

FieldChoices == [excluded : BOOLEAN, rules : RuleLists, val : FieldVals]

\* The destinations handed to Read: a struct of 1..MaxFields fields, or a
\* map, which json decodes into but validate.Struct refuses.
Dests ==
  { [kind |-> "struct",
     fields |-> [i \in 1..n |-> Field(i, c[i].excluded, c[i].rules, c[i].val)]]
    : n \in 1..MaxFields, c \in [1..MaxFields -> FieldChoices] }
  \cup { [kind |-> "map", fields |-> << >>] }

Member(t, s) == [t |-> t, s |-> s]

Bodies ==
  { [syntax |-> FALSE, member |-> Member("absent", << >>)] } \cup
  { [syntax |-> TRUE, member |-> m] :
      m \in { Member("absent", << >>), Member("number", << >>),
              Member("string", <<"a">>), Member("string", <<"-">>) } }

\* ----------------------------------------------------------------- actions

Init ==
  /\ call = "none"
  /\ req = [kind |-> "none"]
  /\ value = [kind |-> "none", fields |-> << >>]
  /\ w = NewWriter(FALSE)
  /\ resp = << >>
  /\ ret = "none"
  /\ validated = FALSE

\* A handler calls Read on a fresh channel with a request body and a
\* destination.
ReadCall ==
  /\ call = "none"
  /\ \E dest \in Dests, body \in Bodies, broken \in BOOLEAN :
       LET out == Read(NewWriter(broken), body, dest)
       IN /\ call' = "Read"
          /\ req' = [kind |-> "Read", dest |-> dest, body |-> body]
          /\ value' = out.value
          /\ w' = out.rw
          /\ resp' = out.resp
          /\ ret' = out.ret
          /\ validated' = out.validated

Next == ReadCall

Spec == Init /\ [][Next]_vars

\* ------------------------------------------------- Write called on its own

SeqsUpTo(S, n) == UNION { [1..k -> S] : k \in 0..n }

\* The status codes handlers pass to Write.
Statuses == {200, StatusBadRequest, 404, StatusInternalServerError}

Responses ==
  [Message : { <<"OK">>, <<"Validation failed">>, <<"read body: ", "EOF">> },
   Errors : SeqsUpTo({ [Field |-> "f1", Code |-> "required"],
                       [Field |-> "f2", Code |-> "username"] }, MaxErrors)]

\* A handler calls Write on a fresh channel.  fault injects a failure of the
\* encoder, which no Response causes by itself.
WriteCall ==
  /\ call = "none"
  /\ \E status \in Statuses, response \in Responses,
        fault \in BOOLEAN, broken \in BOOLEAN :
       /\ call' = "Write"
       /\ req' = [kind |-> "Write", status |-> status, fault |-> fault]
       /\ w' = Write(NewWriter(broken), status, response, fault)
       /\ resp' = <<response>>
       /\ ret' = "void"
       /\ UNCHANGED <<value, validated>>

NextWrite == WriteCall

SpecWrite == Init /\ [][NextWrite]_vars

\* ------------------------------------------- the username rule on its own

AffixChars == {"Z", "0", "-", "_"}

\* The run of n characters "a".
Run(n) == [i \in 1..n |-> "a"]

\* The values the rule is applied to: text made of a short prefix, a run of
\* "a" and a short suffix, and values that are not text.
Candidates ==
  { Text(p \o Run(n) \o s) :
      p \in SeqsUpTo(AffixChars, MaxPrefix), n \in 0..MaxRun,
      s \in SeqsUpTo(AffixChars, MaxSuffix) }
  \cup { [kind |-> "int", s |-> << >>, n |-> 0],
         [kind |-> "int", s |-> << >>, n |-> 7],
         [kind |-> "nil", s |-> << >>, n |-> 0] }

\* The validator applies the username rule to a field value.
UsernameCall ==
  /\ call = "none"
  /\ \E f \in Candidates :
       /\ call' = "username"
       /\ req' = [kind |-> "username", field |-> f]
       /\ ret' = IF username(f) THEN "pass" ELSE "fail"
       /\ UNCHANGED <<value, w, resp, validated>>

NextUsername == UsernameCall

SpecUsername == Init /\ [][NextUsername]_vars

\* ------------------------------------------------- claims about Read (Spec)

\* Nothing was done to the channel: no header set, no status, no bytes.
Untouched(ch) ==
  /\ ch.calls = << >>
  /\ ch.status = 0
  /\ ch.body = << >>
  /\ ch.header = [ct |-> "", xcto |-> ""]

IsOp(c, op) == c.op = op

\* The bytes of the first body write made on the channel.
EnvelopeBytes(ch) == SelectSeq(ch.calls, LAMBDA c : IsOp(c, "Write"))[1].arg

HasMember(bytes, key) == \E j \in DOMAIN bytes.json : bytes.json[j].k = key

DecodeOK == Decode(req.body, req.dest).err = ""

\* The rules of field fld that its value fails, as indexes into fld.rules.
Failing(fld) ==
  { k \in DOMAIN fld.rules :
      fld.rules[k] \in Registered /\ ~RuleFn(fld.rules[k], fld.val) }

AllRegistered(v) ==
  \A i \in DOMAIN v.fields : \A k \in DOMAIN v.fields[i].rules :
     v.fields[i].rules[k] \in Registered

\* The violations of the written envelope that name field fld, under its Go
\* name, its json name, "-" or the empty name.
ViolationsOf(fld) ==
  { k \in DOMAIN resp[1].Errors :
      resp[1].Errors[k].Field \in {fld.name, Head(fld.json), "-", ""} }

\* Read answered with the list of violations.
ValidationFailed ==
  /\ call = "Read"
  /\ ret = "false"
  /\ validated
  /\ value.kind = "struct"

\* C1: when the body decodes and every rule attached to a field of the
\* payload struct is registered and passes on the decoded value, Read returns
\* true and the channel is untouched: no header, no status, no body bytes.
C1_SuccessLeavesChannelUntouched ==
  ( /\ call = "Read"
    /\ DecodeOK
    /\ value.kind = "struct"
    /\ AllRegistered(value)
    /\ \A i \in DOMAIN value.fields : Failing(value.fields[i]) = {} )
  => (ret = "true" /\ Untouched(w))

C1_Witness ==
  /\ call = "Read"
  /\ ret = "true"
  /\ Untouched(w)
  /\ req.body.member.t = "string"
  /\ \E i \in DOMAIN value.fields :
       /\ value.fields[i].rules = <<"required", "username">>
       /\ value.fields[i].val # req.dest.fields[i].val

\* C2: when the body fails to decode, Read answers with status 400 and an
\* envelope with no violations and a message made of "read body: " and the
\* decoder's error text, does not run validation, and returns false.
C2_DecodeFailureIs400 ==
  (call = "Read" /\ ~DecodeOK)
  => /\ ret = "false"
     /\ ~validated
     /\ w.status = StatusBadRequest
     /\ Len(resp) = 1
     /\ resp[1].Errors = << >>
     /\ resp[1].Message # << >>
     /\ resp[1].Message = <<"read body: ", Decode(req.body, req.dest).err>>
     /\ Decode(req.body, req.dest).err # ""
     /\ EnvelopeBytes(w) = Encode(resp[1], NoFault).bytes

C2_Witness ==
  /\ call = "Read"
  /\ ~DecodeOK
  /\ req.body.syntax
  /\ w.status = StatusBadRequest
  /\ \E i \in DOMAIN req.dest.fields : Failing(req.dest.fields[i]) # {}

\* C3: in a validation pass that reports, a field has at most one violation;
\* a field with failing rules has exactly one, whose code is the first
\* failing rule in the order the rules are attached.
C3_OneViolationPerField ==
  ValidationFailed =>
    \A i \in DOMAIN value.fields :
      LET fld == value.fields[i]
          vs == ViolationsOf(fld)
      IN /\ Cardinality(vs) <= 1
         /\ Failing(fld) # {} =>
              /\ Cardinality(vs) = 1
              /\ \A k \in vs :
                   \E r \in Failing(fld) :
                      /\ resp[1].Errors[k].Code = fld.rules[r]
                      /\ \A r2 \in Failing(fld) : r <= r2

C3_Witness ==
  /\ ValidationFailed
  /\ \E i \in DOMAIN value.fields :
       /\ Cardinality(Failing(value.fields[i])) = 2
       /\ value.fields[i].rules = <<"username", "required">>
       /\ \E k \in DOMAIN resp[1].Errors : resp[1].Errors[k].Code = "username"

\* The declared position of the field a violation names.
Owner(name) ==
  CHOOSE i \in DOMAIN value.fields :
    name \in {value.fields[i].name, Head(value.fields[i].json)}

\* C4: the violations of the envelope are in the declaration order of the
\* fields they name.
C4_ViolationsInDeclarationOrder ==
  ValidationFailed =>
    \A k1, k2 \in DOMAIN resp[1].Errors :
      k1 < k2 => Owner(resp[1].Errors[k1].Field) < Owner(resp[1].Errors[k2].Field)

C4_Witness ==
  /\ ValidationFailed
  /\ Len(resp[1].Errors) >= 2
  /\ resp[1].Errors[1].Code # resp[1].Errors[2].Code

Excluded(fld) == Head(fld.json) = "-"

\* C5: a field whose json name is "-" is in no violation, under
\* any name.
C5_ExcludedFieldNeverReported ==
  (call = "Read" /\ Len(resp) = 1) =>
    \A i \in DOMAIN value.fields :
      Excluded(value.fields[i]) => ViolationsOf(value.fields[i]) = {}

\* C6: a rule name that is not registered makes Read answer 500
\* and return false.
C6_UnregisteredRuleIs500 ==
  ( /\ call = "Read"
    /\ DecodeOK
    /\ value.kind = "struct"
    /\ ~AllRegistered(value) )
  => (ret = "false" /\ w.status = StatusInternalServerError)

\* C8: every envelope Read writes carries the member "errors".
C8_FailureEnvelopeHasErrors ==
  (call = "Read" /\ ret = "false") => HasMember(EnvelopeBytes(w), "errors")

\* The positions of the calls of WriteHeader in the log of the channel.
StatusCalls(ch) == { j \in DOMAIN ch.calls : ch.calls[j].op = "WriteHeader" }

\* Exactly one response was started: one call of WriteHeader, Content-Type
\* set before it, the body written after it.
OneResponse(ch) ==
  /\ Cardinality(StatusCalls(ch)) = 1
  /\ \A j \in StatusCalls(ch) :
       /\ \E i \in 1..(j - 1) :
            /\ ch.calls[i].op = "Header.Set"
            /\ ch.calls[i].arg[1] = "Content-Type"
       /\ \E k \in (j + 1)..Len(ch.calls) : ch.calls[k].op = "Write"

\* C10: a call of Read that returns true leaves the channel
\* untouched, and one that returns false has started exactly one response.
C10_SingleGate ==
  /\ (call = "Read" /\ ret = "true") => Untouched(w)
  /\ (call = "Read" /\ ret = "false") => OneResponse(w)

\* ------------------------------------- claims about username (SpecUsername)

\* Text of 1 to 32 characters, each alphanumeric or a hyphen, with no hyphen
\* first, last or next to another hyphen.
WellFormedUsername(f) ==
  /\ f.kind = "string"
  /\ Len(f.s) >= UsernameMinLen
  /\ Len(f.s) <= UsernameMaxLen
  /\ \A i \in 1..Len(f.s) : f.s[i] \in Alnum \cup {"-"}
  /\ f.s[1] # "-"
  /\ f.s[Len(f.s)] # "-"
  /\ \A i \in 1..(Len(f.s) - 1) : ~(f.s[i] = "-" /\ f.s[i + 1] = "-")

\* C7: the username rule passes exactly on text of length 1 to 32 made of
\* alphanumeric segments joined by single hyphens; on every other value, a
\* value that is not text included, it fails (it has no third outcome).
C7_UsernameRule ==
  call = "username" =>
    /\ ret \in {"pass", "fail"}
    /\ (ret = "pass") <=> WellFormedUsername(req.field)

C7_Witness ==
  /\ call = "username"
  /\ ret = "pass"
  /\ Len(req.field.s) = 32
  /\ \E i \in 1..32 : req.field.s[i] = "-"

\* ------------------------------------------ claims about Write (SpecWrite)

\* The calls of ResponseWriter.Write made on the channel.
BodyCalls(ch) == SelectSeq(ch.calls, LAMBDA c : IsOp(c, "Write"))

\* What Write does when the encoder fails: the plain-text 500 of http.Error
\* and nothing else.
FallbackOnly(ch) ==
  /\ ch.status = StatusInternalServerError
  /\ ch.sent.ct = "text/plain; charset=utf-8"
  /\ \A j \in StatusCalls(ch) : ch.calls[j].arg = StatusInternalServerError
  /\ Cardinality(StatusCalls(ch)) = 1
  /\ Len(BodyCalls(ch)) = 1
  /\ \A k \in DOMAIN BodyCalls(ch) : DOMAIN BodyCalls(ch)[k].arg = {"text"}

\* C9 as stated: when the encoder fails, Write sends the plain-text 500,
\* writes neither the requested status nor envelope bytes, attempts no other
\* envelope, and hands the failure to its caller.
C9_EncodeFailureReported ==
  (call = "Write" /\ req.fault) => (FallbackOnly(w) /\ ret = "error")

\* C9 amended: when the encoder fails, Write sends the plain-text 500,
\* writes neither the requested status nor envelope bytes, attempts no other
\* envelope, and returns; Write has no result, so its caller is handed
\* nothing.
C9_EncodeFailureFallback ==
  (call = "Write" /\ req.fault) => (FallbackOnly(w) /\ ret = "void")

C9_Witness ==
  /\ call = "Write"
  /\ req.fault
  /\ req.status = StatusBadRequest
  /\ w.status = StatusInternalServerError
  /\ Len(resp[1].Errors) > 0

====
